---- MODULE Spec2Model ----
(***************************************************************************)
(* file_size_calculator.py: the interactive batch runner `main` and the    *)
(* size allocator `calculate_adjusted_file_size`, with Python's numbers    *)
(* modelled at their real width: `int` is an arbitrary-precision integer   *)
(* (sign and magnitude, the magnitude a little-endian sequence of 15-bit   *)
(* limbs), `float` is an IEEE-754 binary64 value (53-bit significand m and *)
(* exponent e, value m * 2^e, round-half-even, subnormals, inf and nan).   *)
(***************************************************************************)
EXTENDS Integers, Sequences, FiniteSets, TLC

Max(a, b) == IF a >= b THEN a ELSE b
Min(a, b) == IF a <= b THEN a ELSE b

(***************************************************************************)
(* Arbitrary-precision naturals (the magnitude of a Python int).           *)
(***************************************************************************)
LimbBits == 15
Base == 2^LimbBits

\* `then`, evaluated once `first` has been: the order the code computes in
After(first, then) == IF first = first THEN then ELSE then

RECURSIVE Norm(_)
Norm(a) ==
    IF a = <<>> THEN <<>>
    ELSE IF a[Len(a)] = 0 THEN Norm(SubSeq(a, 1, Len(a) - 1)) ELSE a

RECURSIVE FromInt(_)
FromInt(k) == IF k = 0 THEN <<>> ELSE <<k % Base>> \o FromInt(k \div Base)

RECURSIVE MulAddLimbs(_, _, _)
\* a * c + carry for 0 <= c, carry < Base: Len(a) limbs and the carry out of them
\* (the limbs are taken by halves, low half first, to keep the evaluation shallow)
MulAddLimbs(a, c, carry) ==
    IF a = <<>> THEN [d |-> <<>>, c |-> carry]
    ELSE IF Len(a) = 1
      THEN LET t == a[1] * c + carry IN [d |-> <<t % Base>>, c |-> t \div Base]
    ELSE LET h == Len(a) \div 2
             lo == MulAddLimbs(SubSeq(a, 1, h), c, carry)
             hi == MulAddLimbs(SubSeq(a, h + 1, Len(a)), c, lo.c)
         IN  After(lo, [d |-> lo.d \o hi.d, c |-> hi.c])

MulAdd(a, c, carry) == LET r == MulAddLimbs(a, c, carry) IN Norm(r.d \o FromInt(r.c))
MulSmall(a, c) == MulAdd(a, c, 0)
AddSmall(a, c) == MulAdd(a, 1, c)

RECURSIVE DivRem(_, _, _)
\* long division by 0 < d < Base with remainder r carried in, high half first
DivRem(a, d, r) ==
    IF a = <<>> THEN [q |-> <<>>, r |-> r]
    ELSE IF Len(a) = 1
      THEN LET t == r * Base + a[1] IN [q |-> <<t \div d>>, r |-> t % d]
    ELSE LET h == Len(a) \div 2
             hi == DivRem(SubSeq(a, h + 1, Len(a)), d, r)
             lo == DivRem(SubSeq(a, 1, h), d, hi.r)
         IN  After(hi, [q |-> lo.q \o hi.q, r |-> lo.r])

DivSmall(a, d) == LET x == DivRem(a, d, 0) IN [q |-> Norm(x.q), r |-> x.r]

RECURSIVE SubBorrow(_, _)
\* a - c for a >= c, 0 <= c < Base
SubBorrow(a, c) ==
    IF c = 0 THEN a
    ELSE IF a[1] >= c THEN <<a[1] - c>> \o Tail(a)
    ELSE <<a[1] + Base - c>> \o SubBorrow(Tail(a), 1)

SubSmall(a, c) == Norm(SubBorrow(a, c))

RECURSIVE BitLenInt(_)
BitLenInt(x) == IF x = 0 THEN 0 ELSE 1 + BitLenInt(x \div 2)

BitLen(a) == IF a = <<>> THEN 0 ELSE LimbBits * (Len(a) - 1) + BitLenInt(a[Len(a)])

IsOdd(a) == a # <<>> /\ a[1] % 2 = 1

ShiftLeft(a, k) ==
    IF a = <<>> THEN <<>>
    ELSE [i \in 1..(k \div LimbBits) |-> 0] \o MulSmall(a, 2^(k % LimbBits))

\* floor(a / 2^k), and whether any bit was shifted out
ShiftRight(a, k) ==
    LET w == Min(k \div LimbBits, Len(a))
        d == DivSmall(SubSeq(a, w + 1, Len(a)), 2^(k % LimbBits))
    IN  [q |-> d.q, sticky |-> d.r # 0 \/ \E i \in 1..w : a[i] # 0]

\* -1, 0, 1 as a < b, a = b, a > b
Cmp(a, b) ==
    IF Len(a) < Len(b) THEN -1
    ELSE IF Len(a) > Len(b) THEN 1
    ELSE IF a = b THEN 0
    ELSE LET i == CHOOSE i \in 1..Len(a) :
                      a[i] # b[i] /\ \A j \in (i + 1)..Len(a) : a[j] = b[j]
         IN  IF a[i] < b[i] THEN -1 ELSE 1

RECURSIVE MulPow10(_, _)
\* a * 10^k, at most four decimal digits at a step
MulPow10(a, k) ==
    IF k <= 4 THEN MulSmall(a, 10^k)
    ELSE LET b == MulPow10(a, k \div 2) IN After(b, MulPow10(b, k - k \div 2))

RECURSIVE DivPow10(_, _)
\* floor(a / 10^k), and whether a division left a remainder
DivPow10(a, k) ==
    IF k <= 4 THEN LET d == DivSmall(a, 10^k) IN [q |-> d.q, sticky |-> d.r # 0]
    ELSE LET x == DivPow10(a, k \div 2)
             y == DivPow10(x.q, k - k \div 2)
         IN  After(x, [q |-> y.q, sticky |-> x.sticky \/ y.sticky])

(***************************************************************************)
(* IEEE-754 binary64.  A finite double is m * 2^e with m < 2^MantBits and  *)
(* e >= MinExp, m normalised unless e = MinExp; roundings are to nearest,  *)
(* ties to even.                                                           *)
(***************************************************************************)
MantBits == 53
MinExp == -1074
MaxBits == 1024
GuardBits == 2 * MantBits

NaN == [k |-> "nan"]
Inf(neg) == [k |-> "inf", neg |-> neg]
Fin(neg, m, e) == [k |-> "fin", neg |-> neg, m |-> m, e |-> e]

MakeFloat(neg, m, e) ==
    IF m = <<>> THEN Fin(neg, <<>>, MinExp)
    ELSE IF e + BitLen(m) > MaxBits THEN Inf(neg)
    ELSE Fin(neg, m, e)

Half(a) == DivSmall(a, 2).q

\* m may have reached 2^MantBits by rounding up
Renormalise(neg, m, e) ==
    IF BitLen(m) > MantBits THEN MakeFloat(neg, Half(m), e + 1) ELSE MakeFloat(neg, m, e)

\* r: the significand with the rounding bit still at its low end
RoundHalfEven(r, inexact) ==
    IF IsOdd(r) /\ (inexact \/ IsOdd(Half(r))) THEN AddSmall(Half(r), 1) ELSE Half(r)

RoundShifted(neg, s, sticky, te) ==
    Renormalise(neg, RoundHalfEven(s.q, sticky \/ s.sticky), te)

RoundAt(neg, q, e, sticky, te) ==
    IF te <= e THEN MakeFloat(neg, ShiftLeft(q, e - te), te)
    ELSE RoundShifted(neg, ShiftRight(q, te - e - 1), sticky, te)

\* the double nearest to (q + f) * 2^e, 0 <= f < 1, f > 0 iff sticky
RoundToDouble(neg, q, e, sticky) ==
    RoundAt(neg, q, e, sticky, Max(e + BitLen(q) - MantBits, MinExp))

\* x: a quotient and its remainder
RoundQuotient(neg, x, e) == RoundToDouble(neg, x.q, e, x.r # 0)

\* float * int for a small non-negative int c (the int converts exactly)
FloatMulInt(f, c) ==
    IF f.k = "nan" THEN NaN
    ELSE IF f.k = "inf" THEN (IF c = 0 THEN NaN ELSE f)
    ELSE RoundToDouble(f.neg, MulSmall(f.m, c), f.e, FALSE)

\* float / int for a small positive int d (the int converts exactly)
FloatDivInt(f, d) ==
    IF f.k # "fin" THEN f
    ELSE RoundQuotient(f.neg, DivSmall(ShiftLeft(f.m, GuardBits), d), f.e - GuardBits)

\* the sign of m * 2^e - a, for naturals m and a
CmpDyadic(m, e, a) ==
    IF e >= 0 THEN Cmp(ShiftLeft(m, e), a) ELSE Cmp(m, ShiftLeft(a, -e))

\* float >= int for a small positive int c
FloatGeInt(f, c) ==
    IF f.k = "nan" THEN FALSE
    ELSE IF f.k = "inf" THEN ~f.neg
    ELSE ~f.neg /\ CmpDyadic(f.m, f.e, FromInt(c)) >= 0

(***************************************************************************)
(* Python int (sign and magnitude) and the results of calls that may raise.*)
(***************************************************************************)
PyInt(neg, mag) == [neg |-> neg /\ mag # <<>>, mag |-> mag]
IntMulSmall(x, c) == PyInt(x.neg, MulSmall(x.mag, c))

Return(v) == [exc |-> "none", val |-> v]
Raise(e) == [exc |-> e]

\* a ceil that adds one to the integer part whether or not a fraction was dropped
CeilOfParts_plus_one(neg, s) == PyInt(neg, AddSmall(s.q, 1))

\* s: the integer part of |f| and whether a fraction was dropped
CeilOfParts(neg, s) ==
    PyInt(neg, IF ~neg /\ s.sticky THEN AddSmall(s.q, 1) ELSE s.q)

\* math.ceil(float) -> int
Ceil(f) ==
    IF f.k = "nan" THEN Raise("ValueError")
    ELSE IF f.k = "inf" THEN Raise("OverflowError")
    ELSE IF f.e >= 0 THEN Return(PyInt(f.neg, ShiftLeft(f.m, f.e)))
    ELSE Return(CeilOfParts(f.neg, ShiftRight(f.m, -f.e)))

OverflowIfInf(f) == IF f.k = "inf" THEN Raise("OverflowError") ELSE Return(f)

\* int / int (true division) for a small positive divisor
IntTrueDiv(x, d) ==
    OverflowIfInf(RoundQuotient(x.neg, DivSmall(ShiftLeft(x.mag, GuardBits), d), -GuardBits))

Thousandths(neg, s) == [neg |-> neg, milli |-> RoundHalfEven(s.q, s.sticky)]

\* f"{x:.3f}" of a finite float: the sign and the thousandths shown
Format3f(f) ==
    IF f.e >= 0 THEN [neg |-> f.neg, milli |-> ShiftLeft(MulSmall(f.m, 1000), f.e)]
    ELSE Thousandths(f.neg, ShiftRight(MulSmall(f.m, 1000), -f.e - 1))

(***************************************************************************)
(* src/file_size_calculator.py, calculate_adjusted_file_size               *)
(***************************************************************************)
\* the share with the division mistyped as a multiplication
raw_size_mib_times(total_volume_gib, num_files) ==
    FloatMulInt(FloatMulInt(total_volume_gib, 1024), num_files)

\* lines 19-20
raw_size_mib(total_volume_gib, num_files) ==
    FloatDivInt(FloatMulInt(total_volume_gib, 1024), num_files)

\* line 23, after math.ceil: the multiplication by 4, unless ceil raised
TimesFour(c) == IF c.exc # "none" THEN c ELSE Return(IntMulSmall(c.val, 4))

\* the rounding with the alignment branch alone
adjusted_size_mib_aligned(raw) == TimesFour(Ceil(FloatDivInt(raw, 4)))

\* lines 22-27
adjusted_size_mib(raw) ==
    IF FloatGeInt(raw, 4) THEN TimesFour(Ceil(FloatDivInt(raw, 4))) ELSE Ceil(raw)

calculate_adjusted_file_size(total_volume_gib, num_files) ==
    adjusted_size_mib(raw_size_mib(total_volume_gib, num_files))

(***************************************************************************)
(* Text: a str is a sequence of one-character strings.  str.strip,         *)
(* str.split(","), int(str) and float(str) as CPython parses them.         *)
(***************************************************************************)
Digits == <<"0", "1", "2", "3", "4", "5", "6", "7", "8", "9">>
IsDigit(c) == \E d \in 1..10 : Digits[d] = c
DigitVal(c) == (CHOOSE d \in 1..10 : Digits[d] = c) - 1
Whitespace == {" ", "\t", "\n"}
UpperCase == <<"I", "N", "F", "A", "E", "T", "Y">>
LowerCase == <<"i", "n", "f", "a", "e", "t", "y">>
Lower(c) == IF \E i \in 1..7 : UpperCase[i] = c
            THEN LowerCase[CHOOSE i \in 1..7 : UpperCase[i] = c] ELSE c
LowerAll(s) == [i \in 1..Len(s) |-> Lower(s[i])]

RECURSIVE LStrip(_)
LStrip(s) == IF s # <<>> /\ Head(s) \in Whitespace THEN LStrip(Tail(s)) ELSE s

RECURSIVE RStrip(_)
RStrip(s) ==
    IF s # <<>> /\ s[Len(s)] \in Whitespace THEN RStrip(SubSeq(s, 1, Len(s) - 1)) ELSE s

strip(s) == RStrip(LStrip(s))

\* the first index of c in s, or 0
Find(s, c) == IF \E i \in 1..Len(s) : s[i] = c
              THEN CHOOSE i \in 1..Len(s) : s[i] = c /\ \A j \in 1..(i - 1) : s[j] # c
              ELSE 0

\* s up to the first c (all of s without one), and s after it (empty without one)
Before(s, c) == IF Find(s, c) = 0 THEN s ELSE SubSeq(s, 1, Find(s, c) - 1)
Behind(s, c) == IF Find(s, c) = 0 THEN <<>> ELSE SubSeq(s, Find(s, c) + 1, Len(s))

RECURSIVE split(_, _)
split(s, sep) ==
    IF Find(s, sep) = 0 THEN <<s>>
    ELSE <<Before(s, sep)>> \o split(Behind(s, sep), sep)

\* digits, single underscores allowed between digits
DigitGroup(s) ==
    /\ s # <<>>
    /\ IsDigit(s[1]) /\ IsDigit(s[Len(s)])
    /\ \A i \in 1..Len(s) : IsDigit(s[i]) \/ s[i] = "_"
    /\ \A i \in 1..(Len(s) - 1) : ~(s[i] = "_" /\ s[i + 1] = "_")

OnlyDigits(s) == SelectSeq(s, IsDigit)

RECURSIVE DigitsToNat(_, _)
DigitsToNat(s, acc) ==
    IF s = <<>> THEN acc ELSE DigitsToNat(Tail(s), MulAdd(acc, 10, DigitVal(Head(s))))

RECURSIVE DigitsToInt(_, _)
DigitsToInt(s, acc) ==
    IF s = <<>> THEN acc ELSE DigitsToInt(Tail(s), acc * 10 + DigitVal(Head(s)))

HasSign(t) == t # <<>> /\ t[1] \in {"+", "-"}
IsNeg(t) == t # <<>> /\ t[1] = "-"
Unsigned(t) == IF HasSign(t) THEN Tail(t) ELSE t
SignedInt(t) ==
    IF IsNeg(t) THEN -DigitsToInt(OnlyDigits(t), 0) ELSE DigitsToInt(OnlyDigits(t), 0)

IntOfStripped(t) ==
    IF DigitGroup(Unsigned(t)) THEN Return(SignedInt(t)) ELSE Raise("ValueError")

\* int(str): the counts of this model stay below Base, so a machine integer holds them
int(s) == IntOfStripped(strip(s))

RoundSticky(neg, x, e) == RoundToDouble(neg, x.q, e, x.sticky)

\* the double nearest to d / 10^k, the quotient taken with s extra bits
DecimalDown(neg, d, k, s) == RoundSticky(neg, DivPow10(ShiftLeft(d, s), k), -s)

\* the double nearest to d * 10^x
DecimalToDouble(neg, d, x) ==
    IF d = <<>> THEN MakeFloat(neg, <<>>, 0)
    ELSE IF x >= 0 THEN RoundToDouble(neg, MulPow10(d, x), 0, FALSE)
    ELSE DecimalDown(neg, d, -x, 4 * (-x) + GuardBits)

\* ip "." fp "e" expo
FloatOfParts(neg, ip, fp, has_exp, expo) ==
    IF /\ ip = <<>> \/ DigitGroup(ip)
       /\ fp = <<>> \/ DigitGroup(fp)
       /\ ip # <<>> \/ fp # <<>>
       /\ ~has_exp \/ DigitGroup(Unsigned(expo))
    THEN Return(DecimalToDouble(neg, DigitsToNat(OnlyDigits(ip \o fp), <<>>),
                                SignedInt(expo) - Len(OnlyDigits(fp))))
    ELSE Raise("ValueError")

FloatOfBody(neg, body) ==
    IF body \in {<<"i", "n", "f">>, <<"i", "n", "f", "i", "n", "i", "t", "y">>}
      THEN Return(Inf(neg))
    ELSE IF body = <<"n", "a", "n">> THEN Return(NaN)
    ELSE FloatOfParts(neg, Before(Before(body, "e"), "."), Behind(Before(body, "e"), "."),
                      Find(body, "e") # 0, Behind(body, "e"))

FloatOfStripped(t) == FloatOfBody(IsNeg(t), LowerAll(Unsigned(t)))

\* float(str)
float(s) == FloatOfStripped(strip(s))

(***************************************************************************)
(* The inputs: the command line and the two lines typed at the prompts.    *)
(***************************************************************************)
MaxEntries == 3

ArgvOptions == {<<>>, <<"-h">>, <<"--help">>, <<"x", "--he">>, <<"--", "-h">>}

VolumeTexts ==
    { <<"1", "0">>,
      <<"0">>,
      <<"7">>,
      <<" ", "0", ".", "0", "0", "1", " ">>,
      <<"a", "b", "c">>,
      <<>>,
      <<"n", "a", "n">>,
      <<"i", "n", "f">>,
      <<"-", "1">>,
      <<"7", "0", "3", "6", "8", "7", "4", "4", "1", "7", "7", "6", "6", "4">>,
      <<"1", "e", "3", "0", "8">>,
      <<"5", "e", "-", "3", "2", "4">> }

CountTokens ==
    { <<"3">>, <<" ", "-", "1">>, <<"0">>, <<"2", "0", "4", "8">>, <<"x">> }

RECURSIVE Join(_, _)
Join(tokens, sep) ==
    IF Len(tokens) = 1 THEN tokens[1]
    ELSE tokens[1] \o <<sep>> \o Join(Tail(tokens), sep)

CountTexts ==
    {Join(ts, ",") : ts \in UNION {[1..k -> CountTokens] : k \in 1..MaxEntries}}

\* float(input(...)) of every text the volume prompt can be given
VolumeOf == [t \in VolumeTexts |-> float(t)]

(***************************************************************************)
(* src/file_size_calculator.py, main                                       *)
(***************************************************************************)
VARIABLES
    pc,                 \* where main is: "start", "volume", "counts", "loop", "done", "crashed"
    argv,               \* sys.argv[1:]
    inputs,             \* the lines input() has returned so far
    total_volume_gib,   \* float
    file_counts,        \* list of int
    idx,                \* the position of the for loop in file_counts
    output,             \* what has been written to stdout, in order
    calls               \* how many times calculate_adjusted_file_size was called

vars == <<pc, argv, inputs, total_volume_gib, file_counts, idx, output, calls>>

HelpFlags == {"-h", "--help", "--h", "--he", "--hel"}

\* a parser that knows the long flag only
parse_known_args_long_only(args) == \E i \in 1..Len(args) : args[i] = "--help"

\* parser.parse_known_args().help: a help flag anywhere before a bare "--"
parse_known_args(args) ==
    \E i \in 1..Len(args) :
        args[i] \in HelpFlags /\ \A j \in 1..(i - 1) : args[j] # "--"

\* [int(count.strip()) for count in file_counts_input.split(",")]
IntOfEach(tokens) == [i \in 1..Len(tokens) |-> int(strip(tokens[i]))]

\* a parser that drops the tokens int() rejects instead of raising
ListOfParsed(parsed) ==
    Return([i \in 1..Len(SelectSeq(parsed, LAMBDA p : p.exc = "none")) |->
               SelectSeq(parsed, LAMBDA p : p.exc = "none")[i].val])

\* the list, unless an int() raised
ListOf(parsed) ==
    IF \E i \in 1..Len(parsed) : parsed[i].exc # "none" THEN Raise("ValueError")
    ELSE Return([i \in 1..Len(parsed) |-> parsed[i].val])

parse_file_counts(file_counts_input) == ListOf(IntOfEach(split(file_counts_input, ",")))

\* the KiB taken with the decimal factor
adjusted_size_kib_decimal(mib) == IntMulSmall(mib, 1000)

\* lines 73-74
adjusted_size_gib(mib) == IntTrueDiv(mib, 1024)
adjusted_size_kib(mib) == IntMulSmall(mib, 1024)

Prompt(which) == [kind |-> "prompt", which |-> which]
HelpText == [kind |-> "help"]
FatalMessage == [kind |-> "fatal"]
Warning(num_files) == [kind |-> "warning", num_files |-> num_files]
Block(num_files, gib, mib, kib) ==
    [kind |-> "block", num_files |-> num_files, gib |-> gib, mib |-> mib, kib |-> kib]

Init ==
    /\ pc = "start"
    /\ argv \in ArgvOptions
    /\ inputs = <<>>
    /\ total_volume_gib = NaN
    /\ file_counts = <<>>
    /\ idx = 1
    /\ output = <<>>
    /\ calls = 0

\* lines 53-58
ParseArgs ==
    /\ pc = "start"
    /\ IF parse_known_args(argv)
         THEN output' = Append(output, HelpText) /\ pc' = "done"
         ELSE output' = output /\ pc' = "volume"
    /\ UNCHANGED <<argv, inputs, total_volume_gib, file_counts, idx, calls>>

\* line 61, and line 82 when float() raises
ReadVolume ==
    /\ pc = "volume"
    /\ \E text \in VolumeTexts :
         /\ inputs' = Append(inputs, text)
         /\ IF VolumeOf[text].exc = "none"
              THEN /\ total_volume_gib' = VolumeOf[text].val
                   /\ output' = Append(output, Prompt("volume"))
                   /\ pc' = "counts"
              ELSE /\ total_volume_gib' = total_volume_gib
                   /\ output' = output \o <<Prompt("volume"), FatalMessage>>
                   /\ pc' = "done"
    /\ UNCHANGED <<argv, file_counts, idx, calls>>

\* line 65: the assignment, or the jump to line 82 when int() raised
StoreCounts(parsed) ==
    IF parsed.exc = "none"
      THEN /\ file_counts' = parsed.val
           /\ output' = Append(output, Prompt("counts"))
           /\ pc' = "loop"
      ELSE /\ file_counts' = file_counts
           /\ output' = output \o <<Prompt("counts"), FatalMessage>>
           /\ pc' = "done"

\* lines 62-65, and line 82 when int() raises
ReadCounts ==
    /\ pc = "counts"
    /\ \E text \in CountTexts :
         /\ inputs' = Append(inputs, text)
         /\ StoreCounts(parse_file_counts(text))
    /\ UNCHANGED <<argv, total_volume_gib, idx, calls>>

\* lines 67-70: one pass of the loop body over a count <= 0
SkipEntry ==
    /\ pc = "loop" /\ idx <= Len(file_counts)
    /\ file_counts[idx] <= 0
    /\ output' = Append(output, Warning(file_counts[idx]))
    /\ idx' = idx + 1
    /\ UNCHANGED <<pc, argv, inputs, total_volume_gib, file_counts, calls>>

\* an exception on the way out of the loop body: ValueError is caught at line 81 and
\* answered at line 82, any other exception leaves main
Unwind(exc) ==
    /\ idx' = idx
    /\ IF exc = "ValueError"
         THEN output' = Append(output, FatalMessage) /\ pc' = "done"
         ELSE output' = output /\ pc' = "crashed"

\* lines 76-79
PrintBlock(num_files, mib, gib) ==
    IF gib.exc # "none" THEN Unwind(gib.exc)
    ELSE /\ output' = Append(output, Block(num_files, Format3f(gib.val), mib,
                                           adjusted_size_kib(mib)))
         /\ pc' = pc
         /\ idx' = idx + 1

\* lines 72-79, mib being what the call at line 72 returned or raised
Render(num_files, mib) ==
    IF mib.exc # "none" THEN Unwind(mib.exc)
    ELSE PrintBlock(num_files, mib.val, adjusted_size_gib(mib.val))

\* lines 72-79: one pass of the loop body over a count > 0
RenderEntry ==
    /\ pc = "loop" /\ idx <= Len(file_counts)
    /\ file_counts[idx] > 0
    /\ calls' = calls + 1
    /\ Render(file_counts[idx], calculate_adjusted_file_size(total_volume_gib, file_counts[idx]))
    /\ UNCHANGED <<argv, inputs, total_volume_gib, file_counts>>

\* line 67: the list is exhausted and main returns
EndLoop ==
    /\ pc = "loop" /\ idx > Len(file_counts)
    /\ pc' = "done"
    /\ UNCHANGED <<argv, inputs, total_volume_gib, file_counts, idx, output, calls>>

Next == ParseArgs \/ ReadVolume \/ ReadCounts \/ SkipEntry \/ RenderEntry \/ EndLoop

Spec == Init /\ [][Next]_vars

(***************************************************************************)
(* What the properties below read off a state.                             *)
(***************************************************************************)
Printed(kind) == {i \in 1..Len(output) : output[i].kind = kind}
VolumeParsed == Len(inputs) >= 1 /\ VolumeOf[inputs[1]].exc = "none"
CountsParsed == Len(inputs) = 2 /\ parse_file_counts(inputs[2]).exc = "none"
\* what the loop has printed: the output after the two prompts
Results == SubSeq(output, 3, Len(output))
\* a finite volume >= 0
ValidVolume == total_volume_gib.k = "fin" /\ (~total_volume_gib.neg \/ total_volume_gib.m = <<>>)
Four == FromInt(4)

\* v * 1024 > x and v * 1024 >= x, exactly, for the volume v read and a natural x
ShareAbove(x) == CmpDyadic(total_volume_gib.m, total_volume_gib.e + 10, x) > 0
ShareAtLeast(x) == CmpDyadic(total_volume_gib.m, total_volume_gib.e + 10, x) >= 0

(* C1: for every non-negative volume v and positive count n, the rendered   *)
(* size times n is at least v * 1024, the product taken exactly.            *)
C1_NeverBelowShare ==
    \A i \in Printed("block") :
        ValidVolume => ~ShareAbove(MulSmall(output[i].mib.mag, output[i].num_files))

(* C2: when the share raw = v * 1024 / n, taken exactly, is >= 4, the size  *)
(* is a multiple of 4, is >= raw, and the multiple of 4 below it is < raw.  *)
C2_LeastMultipleOfFour ==
    \A i \in Printed("block") :
        (ValidVolume /\ ShareAtLeast(MulSmall(Four, output[i].num_files))) =>
            /\ ~output[i].mib.neg
            /\ Cmp(output[i].mib.mag, Four) >= 0
            /\ output[i].mib.mag[1] % 4 = 0
            /\ ~ShareAbove(MulSmall(output[i].mib.mag, output[i].num_files))
            /\ ShareAbove(MulSmall(SubSmall(output[i].mib.mag, 4), output[i].num_files))

RawOf(i) == raw_size_mib(total_volume_gib, output[i].num_files)
\* x >= f and x < f, for a natural x and a finite f >= 0
AtLeast(x, f) == CmpDyadic(f.m, f.e, x) <= 0
Below(x, f) == CmpDyadic(f.m, f.e, x) > 0

C4_NonIncreasing ==
    \A i, j \in Printed("block") :
        (ValidVolume /\ total_volume_gib.m # <<>>
            /\ output[i].num_files < output[j].num_files) =>
            /\ ~output[i].mib.neg /\ ~output[j].mib.neg
            /\ Cmp(output[j].mib.mag, output[i].mib.mag) <= 0

C4_Witness ==
    \E i, j \in Printed("block") :
        /\ ValidVolume /\ total_volume_gib.m # <<>>
        /\ output[i].num_files < output[j].num_files
        /\ ShareAtLeast(MulSmall(Four, output[i].num_files))
        /\ ~ShareAtLeast(MulSmall(Four, output[j].num_files))
        /\ Cmp(output[j].mib.mag, output[i].mib.mag) < 0

\* the volume text is no real number, or a token of the counts text is no integer
Malformed ==
    \/ Len(inputs) >= 1 /\ VolumeOf[inputs[1]].exc # "none"
    \/ /\ Len(inputs) = 2
       /\ \E k \in 1..Len(split(inputs[2], ",")) :
              int(strip(split(inputs[2], ",")[k])).exc # "none"

(* C5: once a malformed text has been read, the fatal message has been      *)
(* printed exactly once and no allocation block has been or is printed.     *)
C5_FatalOnceNoBlock ==
    Malformed => Cardinality(Printed("fatal")) = 1 /\ Printed("block") = {}

C5_Witness ==
    /\ pc = "done"
    /\ Len(inputs) = 2
    /\ inputs[2] = <<"3", ",", "x">>
    /\ Printed("fatal") # {}

(* C6: when main has ended on a batch whose tokens all parse, run against a  *)
(* finite volume >= 0, the loop has printed one line or block per entry, in *)
(* input order: the warning naming it for an entry <= 0, a block for an     *)
(* entry > 0.                                                               *)
C6_OneResultPerEntry ==
    (pc \in {"done", "crashed"} /\ VolumeParsed /\ CountsParsed /\ ValidVolume) =>
        /\ Len(Results) = Len(file_counts)
        /\ \A k \in 1..Len(file_counts) :
               /\ Results[k].kind = (IF file_counts[k] <= 0 THEN "warning" ELSE "block")
               /\ Results[k].num_files = file_counts[k]

\* the thousandths shown are the nearest to mib / 1024
NearestThousandth(gib, mib) ==
    /\ gib.neg = mib.neg
    /\ Cmp(MulSmall(gib.milli, 1024), AddSmall(MulSmall(mib.mag, 1000), 512)) <= 0
    /\ Cmp(AddSmall(MulSmall(gib.milli, 1024), 512), MulSmall(mib.mag, 1000)) >= 0

(* C7: every block shows, for its count n, MiB = the allocator's result for *)
(* the volume parsed from the first line and n, KiB = MiB * 1024 and GiB =  *)
(* MiB / 1024 (to three decimals); the volume is the one parsed at first.   *)
C7_BlockShowsAllocation ==
    \A i \in Printed("block") :
        /\ total_volume_gib = VolumeOf[inputs[1]].val
        /\ Return(output[i].mib) =
               calculate_adjusted_file_size(VolumeOf[inputs[1]].val, output[i].num_files)
        /\ output[i].kib = PyInt(output[i].mib.neg, ShiftLeft(output[i].mib.mag, 10))
        /\ NearestThousandth(output[i].gib, output[i].mib)

C7_Witness ==
    \E i \in Printed("block") :
        /\ inputs[1] = <<"1", "0">>
        /\ output[i].num_files = 3
        /\ output[i].kib = PyInt(FALSE, FromInt(3497984))
        /\ output[i].gib = [neg |-> FALSE, milli |-> FromInt(3336)]

(* C8: with -h or --help as the first argument, main prints the usage text  *)
(* and returns: no prompt, no call of the allocator, nothing else printed.  *)
C8_HelpBypasses ==
    (argv # <<>> /\ argv[1] \in {"-h", "--help"} /\ pc # "start") =>
        /\ pc = "done"
        /\ output = <<HelpText>>
        /\ inputs = <<>>
        /\ calls = 0

C8_Witness == argv = <<"-h">> /\ pc = "done" /\ output = <<HelpText>>

(* C9: with volume 0, every entry > 0 the loop has passed got a block of    *)
(* 0 MiB and 0 KiB, and no fatal message or exception came of it.           *)
C9_ZeroVolumeRendered ==
    (VolumeParsed /\ CountsParsed /\ total_volume_gib.k = "fin"
        /\ total_volume_gib.m = <<>>) =>
        /\ pc \in {"loop", "done"}
        /\ Len(Results) = idx - 1
        /\ \A k \in 1..(idx - 1) :
               file_counts[k] > 0 =>
                   /\ Results[k].kind = "block"
                   /\ Results[k].num_files = file_counts[k]
                   /\ Results[k].mib = PyInt(FALSE, <<>>)
                   /\ Results[k].kib = PyInt(FALSE, <<>>)

C9_Witness ==
    /\ inputs # <<>> /\ inputs[1] = <<"0">>
    /\ \E i \in Printed("block") :
           output[i].num_files = 3 /\ output[i].mib = PyInt(FALSE, <<>>)

(* C10: main never leaves by an exception, the fatal message never follows  *)
(* a warning or a block, and a run that has ended has either passed the     *)
(* whole batch without the fatal message or printed nothing but it.         *)
C10_AllOrNothing ==
    /\ pc # "crashed"
    /\ \A j \in Printed("fatal") : \A i \in 1..(j - 1) : output[i].kind = "prompt"
    /\ (pc = "done" /\ Len(inputs) >= 1) =>
           \/ Printed("fatal") = {} /\ Len(inputs) = 2 /\ idx = Len(file_counts) + 1
           \/ Cardinality(Printed("fatal")) = 1 /\ Printed("block") \cup Printed("warning") = {}

====
